---------------------------- MODULE Spec2Model ----------------------------
(***************************************************************************)
(* Model of further_study/cohort_data2.py: a loader for a pipe-delimited   *)
(* roster file and the queries computed from it.                          *)
(*                                                                         *)
(* A Python str is a sequence of one-character strings; a file is the      *)
(* sequence of its lines as iteration over the open file yields them       *)
(* (each with its line terminator).  A call either returns a value or      *)
(* raises: Return(v) / Raise(e).                                           *)
(***************************************************************************)
EXTENDS Integers, Sequences, FiniteSets, TLC

\* ------------------------------------------------------------------------
\* Python values
\* ------------------------------------------------------------------------

Return(v) == [tag |-> "return", val |-> v]
Raise(e) == [tag |-> "raise", val |-> e]

\* None and str, as get_cohort_for / get_house_for return them.
PyNone == [py |-> "None", s |-> <<>>]
PyStr(s) == [py |-> "str", s |-> s]

\* Code points of the characters the inputs use (str comparison is by
\* code point).
Ord ==
    (" " :> 32) @@ ("A" :> 65) @@ ("B" :> 66) @@ ("O" :> 79)
    @@ ("l" :> 108) @@ ("o" :> 111) @@ ("x" :> 120) @@ ("z" :> 122)

\* s < t for str: lexicographic on code points, a proper prefix first.
RECURSIVE StrLess(_, _)
StrLess(s, t) ==
    IF t = <<>> THEN FALSE
    ELSE IF s = <<>> THEN TRUE
    ELSE IF Head(s) = Head(t) THEN StrLess(Tail(s), Tail(t))
    ELSE Ord[Head(s)] < Ord[Head(t)]

\* sorted(list of str): insertion of each element after the elements not
\* greater than it (a stable sort).
RECURSIVE InsertSorted(_, _)
InsertSorted(x, l) ==
    IF l = <<>> THEN <<x>>
    ELSE IF StrLess(x, Head(l)) THEN <<x>> \o l
    ELSE <<Head(l)>> \o InsertSorted(x, Tail(l))

RECURSIVE sorted(_)
sorted(l) ==
    IF l = <<>> THEN <<>>
    ELSE InsertSorted(l[Len(l)], sorted(SubSeq(l, 1, Len(l) - 1)))

\* The characters str.rstrip() removes (those the inputs use).
Whitespace == {" ", "\n", "\t", "\r"}

\* Variant: only one line terminator is removed, as line.rstrip("\n") on a
\* line of one terminator does.
rstrip_newline_only(s) ==
    IF s # <<>> /\ s[Len(s)] = "\n" THEN SubSeq(s, 1, Len(s) - 1) ELSE s

\* line.rstrip()
RECURSIVE rstrip(_)
rstrip(s) ==
    IF s # <<>> /\ s[Len(s)] \in Whitespace
    THEN rstrip(SubSeq(s, 1, Len(s) - 1))
    ELSE s

\* s.split("|"): the fields between the separators; "" gives one empty field.
RECURSIVE SplitFrom(_, _, _)
SplitFrom(s, cur, acc) ==
    IF s = <<>> THEN Append(acc, cur)
    ELSE IF Head(s) = "|" THEN SplitFrom(Tail(s), <<>>, Append(acc, cur))
    ELSE SplitFrom(Tail(s), Append(cur, Head(s)), acc)

split(s) == SplitFrom(s, <<>>, <<>>)

\* f"{first} {last}"
FullName(first, last) == first \o <<" ">> \o last

\* ------------------------------------------------------------------------
\* The loader
\* ------------------------------------------------------------------------

\* data = [tuple(line.rstrip().split("|")) for line in cohort_data]
ReadRows(f) == [i \in 1..Len(f) |-> split(rstrip(f[i]))]

\* (f"{first} {last}", *rest) for first, last, *rest in data: a row with
\* fewer than two fields cannot be unpacked.
MergeRow(row) == <<FullName(row[1], row[2])>> \o SubSeq(row, 3, Len(row))

all_data(f) ==
    LET data == ReadRows(f)
    IN  IF \E i \in 1..Len(data) : Len(data[i]) < 2
        THEN Raise("ValueError")
        ELSE Return([i \in 1..Len(data) |-> MergeRow(data[i])])


\* ------------------------------------------------------------------------
\* String literals of the source
\* ------------------------------------------------------------------------

StrG == <<"G">>
StrI == <<"I">>
StrAll == <<"A", "l", "l">>
DumbledoresArmy == <<"D", "u", "m", "b", "l", "e", "d", "o", "r", "e", "'", "s", " ", "A", "r", "m", "y">>
Gryffindor == <<"G", "r", "y", "f", "f", "i", "n", "d", "o", "r">>
Hufflepuff == <<"H", "u", "f", "f", "l", "e", "p", "u", "f", "f">>
Ravenclaw == <<"R", "a", "v", "e", "n", "c", "l", "a", "w">>
Slytherin == <<"S", "l", "y", "t", "h", "e", "r", "i", "n">>

\* ------------------------------------------------------------------------
\* The queries
\* ------------------------------------------------------------------------

\* Variant: the comprehension without its "if house".
all_houses_unfiltered(f) ==
    LET d == all_data(f)
    IN  IF d.tag = "raise" THEN d
        ELSE IF \E i \in 1..Len(d.val) : Len(d.val[i]) < 2
        THEN Raise("ValueError")
        ELSE Return({d.val[i][2] : i \in 1..Len(d.val)})

\* {house for _, house, *_ in all_data(filename) if house}: a record needs
\* at least two elements to be unpacked.
all_houses(f) ==
    LET d == all_data(f)
    IN  IF d.tag = "raise" THEN d
        ELSE IF \E i \in 1..Len(d.val) : Len(d.val[i]) < 2
        THEN Raise("ValueError")
        ELSE Return({d.val[i][2] : i \in {j \in 1..Len(d.val) : d.val[j][2] # <<>>}})

\* Variant: only the ghosts are filtered out.
IsStudentRecord_not_ghost(r) == r[4] # StrG

\* [(fullname, cohort_name) for fullname, _, _, cohort_name in ...
\*  if cohort_name not in ("I", "G")]
IsStudentRecord(r) == r[4] \notin {StrI, StrG}

\* [fullname for fullname, cohort_name in student_data if cohort_name == cohort]
RECURSIVE NamesInCohort(_, _)
NamesInCohort(student_data, cohort) ==
    IF student_data = <<>> THEN <<>>
    ELSE IF Head(student_data)[2] = cohort
    THEN <<Head(student_data)[1]>> \o NamesInCohort(Tail(student_data), cohort)
    ELSE NamesInCohort(Tail(student_data), cohort)

students_by_cohort(f, cohort) ==
    LET d == all_data(f)
    IN  IF d.tag = "raise" THEN d
        ELSE IF \E i \in 1..Len(d.val) : Len(d.val[i]) # 4
        THEN Raise("ValueError")
        ELSE LET students == SelectSeq(d.val, IsStudentRecord)
                 student_data == [i \in 1..Len(students) |->
                                    <<students[i][1], students[i][4]>>]
             IN  IF cohort = StrAll
                 THEN Return(sorted([i \in 1..Len(student_data) |-> student_data[i][1]]))
                 ELSE Return(sorted(NamesInCohort(student_data, cohort)))

\* The seven rosters, in the order of the returned list.
EmptyRosters == [k \in 1..7 |-> <<>>]

AppendTo(rosters, k, fullname) == [rosters EXCEPT ![k] = Append(@, fullname)]

\* Variant: the sentinels are tested whatever the house.
AfterSentinels_any_house(rosters, fullname, house, cohort_name) ==
    IF cohort_name = StrG THEN AppendTo(rosters, 6, fullname)
    ELSE IF cohort_name = StrI THEN AppendTo(rosters, 7, fullname)
    ELSE rosters

\* The body of the for loop for one record (lines 132-147): first the
\* ghosts and instructors, then the if/elif chain over the house names.
AfterSentinels(rosters, fullname, house, cohort_name) ==
    IF house = <<>>
    THEN IF cohort_name = StrG THEN AppendTo(rosters, 6, fullname)
         ELSE IF cohort_name = StrI THEN AppendTo(rosters, 7, fullname)
         ELSE rosters
    ELSE rosters

AfterHouses(rosters, fullname, house) ==
    IF house = DumbledoresArmy THEN AppendTo(rosters, 1, fullname)
    ELSE IF house = Gryffindor THEN AppendTo(rosters, 2, fullname)
    ELSE IF house = Hufflepuff THEN AppendTo(rosters, 3, fullname)
    ELSE IF house = Ravenclaw THEN AppendTo(rosters, 4, fullname)
    ELSE IF house = Slytherin THEN AppendTo(rosters, 5, fullname)
    ELSE rosters

PlaceRecord(rosters, r) ==
    AfterHouses(AfterSentinels(rosters, r[1], r[2], r[4]), r[1], r[2])

\* Variant: a record that cannot be unpacked is skipped.
RECURSIVE RosterLoop_skipping(_, _)
RosterLoop_skipping(recs, rosters) ==
    IF recs = <<>> THEN Return(rosters)
    ELSE IF Len(Head(recs)) # 4 THEN RosterLoop_skipping(Tail(recs), rosters)
    ELSE RosterLoop_skipping(Tail(recs), PlaceRecord(rosters, Head(recs)))

\* for fullname, house, _, cohort_name in all_data(filename): ...
RECURSIVE RosterLoop(_, _)
RosterLoop(recs, rosters) ==
    IF recs = <<>> THEN Return(rosters)
    ELSE IF Len(Head(recs)) # 4 THEN Raise("ValueError")
    ELSE RosterLoop(Tail(recs), PlaceRecord(rosters, Head(recs)))

all_names_by_house(f) ==
    LET d == all_data(f)
    IN  IF d.tag = "raise" THEN d
        ELSE LET r == RosterLoop(d.val, EmptyRosters)
             IN  IF r.tag = "raise" THEN r
                 ELSE Return([k \in 1..7 |-> sorted(r.val[k])])

\* for full_name, _, _, cohort_name in all_data(filename):
\*     if full_name == name: return cohort_name
\* (falling off the end returns None)
RECURSIVE CohortScan(_, _)
CohortScan(recs, name) ==
    IF recs = <<>> THEN Return(PyNone)
    ELSE IF Len(Head(recs)) # 4 THEN Raise("ValueError")
    ELSE IF Head(recs)[1] = name THEN Return(PyStr(Head(recs)[4]))
    ELSE CohortScan(Tail(recs), name)

\* Variant: the scan starts at the second record, as over a file with a
\* header line.
get_cohort_for_after_header(f, name) ==
    LET d == all_data(f)
    IN  IF d.tag = "raise" THEN d
        ELSE IF d.val = <<>> THEN Return(PyNone)
        ELSE CohortScan(Tail(d.val), name)

get_cohort_for(f, name) ==
    LET d == all_data(f)
    IN  IF d.tag = "raise" THEN d ELSE CohortScan(d.val, name)

\* for fullname, house, *_ in all_data(filename):
\*     if fullname == name: return house
RECURSIVE HouseScan(_, _)
HouseScan(recs, name) ==
    IF recs = <<>> THEN Return(PyNone)
    ELSE IF Len(Head(recs)) < 2 THEN Raise("ValueError")
    ELSE IF Head(recs)[1] = name THEN Return(PyStr(Head(recs)[2]))
    ELSE HouseScan(Tail(recs), name)

\* Variant: get_house_for as a copy of get_cohort_for, returning the
\* cohort.
get_house_for_cohort(f, name) == get_cohort_for(f, name)

get_house_for(f, name) ==
    LET d == all_data(f)
    IN  IF d.tag = "raise" THEN d ELSE HouseScan(d.val, name)

\* Variant: the cohort is not compared.
IsHousemate_same_house(r, name, target_house, target_cohort) ==
    /\ r[1] # name
    /\ PyStr(r[2]) = target_house

\* full_name != name and house == target_house and cohort_name == target_cohort
IsHousemate(r, name, target_house, target_cohort) ==
    /\ r[1] # name
    /\ PyStr(r[2]) = target_house
    /\ PyStr(r[4]) = target_cohort

get_housemates_for(f, name) ==
    LET target_cohort == get_cohort_for(f, name)
        target_house == get_house_for(f, name)
        d == all_data(f)
    IN  IF target_cohort.tag = "raise" THEN target_cohort
        ELSE IF target_house.tag = "raise" THEN target_house
        ELSE IF d.tag = "raise" THEN d
        ELSE IF \E i \in 1..Len(d.val) : Len(d.val[i]) # 4
        THEN Raise("ValueError")
        ELSE Return({d.val[i][1] : i \in {j \in 1..Len(d.val) :
                IsHousemate(d.val[j], name, target_house.val, target_cohort.val)}})

\* The names bound at module level (the def statements of the file).
ModuleNames ==
    {"all_houses", "students_by_cohort", "all_names_by_house", "all_data",
     "get_cohort_for", "find_duped_last_names", "get_house_for",
     "get_housemates_for"}

\* The loop of find_duped_last_names over the rows its reader yields:
\* for first, last, *_ in rows: dupes gets last when seen before.
RECURSIVE DupedLoop(_, _, _)
DupedLoop(rows, seen_names, dupes) ==
    IF rows = <<>> THEN Return(dupes)
    ELSE IF Len(Head(rows)) < 2 THEN Raise("ValueError")
    ELSE DupedLoop(Tail(rows), seen_names \cup {Head(rows)[2]},
                   IF Head(rows)[2] \in seen_names
                   THEN dupes \cup {Head(rows)[2]} ELSE dupes)

\* for first, last, *_ in read_cohort_data(filename): the global name
\* read_cohort_data is looked up when the call is evaluated, before the
\* loop starts; an unbound name raises NameError.  (Were the name bound to
\* a reader of the split lines, the loop would run over its rows.)
find_duped_last_names(f) ==
    IF "read_cohort_data" \notin ModuleNames
    THEN Raise("NameError")
    ELSE DupedLoop(ReadRows(f), {}, {})

\* ------------------------------------------------------------------------
\* Inputs: the files and the arguments of the calls
\* ------------------------------------------------------------------------

\* Files of up to MaxLines lines over LineSet, and files of up to
\* MaxRepeatLines lines over the few lines of RepeatLineSet (repeated
\* names with different houses need three lines).
MaxLines == 2
MaxRepeatLines == 3

RECURSIVE JoinFields(_)
JoinFields(fields) ==
    IF Len(fields) = 1 THEN fields[1]
    ELSE fields[1] \o <<"|">> \o JoinFields(Tail(fields))

Line(fields, eol) == JoinFields(fields) \o eol

Al == <<"A", "l">>
Bo == <<"B", "o">>
Ox == <<"O", "x">>
Oz == <<"O", "z">>
Adviser == <<"M", "c", "G">>
Fall == <<"F", "1", "5">>
Winter == <<"W", "1", "6">>
Muggle == <<"M", "u", "g">>
Eol == <<"\n">>

Firsts == {Al, Bo}

\* The <<house, cohort>> pairs both names of CoreLines are given.
CoreAffiliations ==
    {<<<<>>, StrG>>, <<<<>>, StrI>>, <<Gryffindor, Fall>>, <<Slytherin, Fall>>}

CoreLines ==
    {Line(<<fi, Ox, a[1], Adviser, a[2]>>, Eol) :
        fi \in Firsts, a \in CoreAffiliations}

\* Lines of a third name: the other houses, another cohort, a house that
\* is none of the five, and pairs the data never holds.  Some end
\* otherwise: in blanks before the terminator, in no terminator.
OtherLines ==
    {Line(<<Al, Oz, DumbledoresArmy, Adviser, Fall>>, Eol),
     Line(<<Al, Oz, Hufflepuff, Adviser, Fall>>, <<" ", "\n">>),
     Line(<<Al, Oz, Ravenclaw, Adviser, Fall>>, <<" ", "\t", "\n">>),
     Line(<<Al, Oz, Gryffindor, Adviser, Winter>>, Eol),
     Line(<<Al, Oz, Muggle, Adviser, Fall>>, <<>>),
     Line(<<Al, Oz, Gryffindor, Adviser, StrG>>, Eol),
     Line(<<Al, Oz, <<>>, Adviser, Fall>>, Eol)}

\* Lines of one, two, four and six fields.
MalformedLines ==
    {Eol,
     Line(<<Al, Ox>>, Eol),
     Line(<<Al, Ox, Gryffindor, Adviser>>, Eol),
     Line(<<Al, Ox, Gryffindor, Adviser, Fall, Fall>>, Eol)}

LineSet == CoreLines \cup OtherLines \cup MalformedLines

RepeatLineSet ==
    {Line(<<n[1], n[2], h, Adviser, Fall>>, Eol) :
        n \in {<<Al, Ox>>, <<Bo, Ox>>, <<Al, Oz>>}, h \in {Gryffindor, Slytherin}}

\* Iterating over a file yields every line with its terminator, but for
\* the last, which may have none.
Terminated(lines) ==
    \A i \in 1..(Len(lines) - 1) : lines[i][Len(lines[i])] = "\n"

SeqsUpTo(S, n) == {lines \in UNION {[1..k -> S] : k \in 0..n} : Terminated(lines)}

Files == SeqsUpTo(LineSet, MaxLines) \cup SeqsUpTo(RepeatLineSet, MaxRepeatLines)

\* Names asked for: those of the lines, and one no line holds.
NameArgs == {FullName(fi, Ox) : fi \in Firsts} \cup {FullName(Oz, Al)}

CohortArgs == {StrAll, Fall, StrG}

\* ------------------------------------------------------------------------
\* The state machine: a file, and the last call made on it
\* ------------------------------------------------------------------------

VARIABLES file, op, arg, ret

vars == <<file, op, arg, ret>>

Init ==
    /\ file \in Files
    /\ op = "none"
    /\ arg = <<>>
    /\ ret = Return(PyNone)

Call(name, a, r) ==
    /\ op' = name
    /\ arg' = a
    /\ ret' = r
    /\ UNCHANGED file

CallAllData == Call("all_data", <<>>, all_data(file))

CallAllHouses == Call("all_houses", <<>>, all_houses(file))

CallStudentsByCohort ==
    \E cohort \in CohortArgs :
        Call("students_by_cohort", cohort, students_by_cohort(file, cohort))

CallAllNamesByHouse == Call("all_names_by_house", <<>>, all_names_by_house(file))

CallGetCohortFor ==
    \E name \in NameArgs : Call("get_cohort_for", name, get_cohort_for(file, name))

CallGetHouseFor ==
    \E name \in NameArgs : Call("get_house_for", name, get_house_for(file, name))

CallFindDupedLastNames ==
    Call("find_duped_last_names", <<>>, find_duped_last_names(file))

CallGetHousematesFor ==
    \E name \in NameArgs :
        Call("get_housemates_for", name, get_housemates_for(file, name))

Next ==
    \/ CallAllData
    \/ CallAllHouses
    \/ CallStudentsByCohort
    \/ CallAllNamesByHouse
    \/ CallGetCohortFor
    \/ CallGetHouseFor
    \/ CallFindDupedLastNames
    \/ CallGetHousematesFor

Spec == Init /\ [][Next]_vars

\* ------------------------------------------------------------------------
\* What the claims speak of, stated on the text of the lines
\* ------------------------------------------------------------------------

\* The line without its trailing whitespace: its longest prefix that is
\* empty or ends in a character that is no whitespace.
StrippedLen(line) ==
    LET keep == {i \in 1..Len(line) : line[i] \notin Whitespace}
    IN  IF keep = {} THEN 0 ELSE CHOOSE i \in keep : \A j \in keep : j <= i

Stripped(line) == SubSeq(line, 1, StrippedLen(line))

\* The positions that delimit the fields of the stripped text t: its
\* separators, and the positions before its first and after its last
\* character.
Delimiters(t) == {0, Len(t) + 1} \cup {i \in 1..Len(t) : t[i] = "|"}

FieldCount(line) == Cardinality(Delimiters(Stripped(line))) - 1

\* The fields of a line: the k-th is the text between the k-th smallest
\* delimiter and the next.
Fields(line) ==
    LET t == Stripped(line)
        D == Delimiters(t)
        at == [k \in 1..Cardinality(D) |->
                 CHOOSE p \in D : Cardinality({q \in D : q < p}) = k - 1]
    IN  [k \in 1..(Cardinality(D) - 1) |-> SubSeq(t, at[k] + 1, at[k + 1] - 1)]

\* The fields of every line of the file.  Below, f is this table.
FieldsOf(lines) == [i \in 1..Len(lines) |-> Fields(lines[i])]

WellFormed(f) == \A i \in 1..Len(f) : Len(f[i]) = 5

\* The full name, house, adviser and cohort the i-th line states.
NameAt(f, i) == f[i][1] \o <<" ">> \o f[i][2]
HouseAt(f, i) == f[i][3]
AdviserAt(f, i) == f[i][4]
CohortAt(f, i) == f[i][5]

\* The lines that state the name, and the first of them.
LinesNaming(f, name) == {i \in 1..Len(f) : NameAt(f, i) = name}

FirstNaming(f, name) ==
    CHOOSE i \in LinesNaming(f, name) : \A j \in LinesNaming(f, name) : i <= j

\* How often x occurs in the list l.
Count(l, x) == Cardinality({i \in 1..Len(l) : l[i] = x})

\* s precedes t in the order of str: they agree on k characters, and then
\* s ends and t does not, or s continues with the smaller character.
Precedes(s, t) ==
    \E k \in 0..Len(s) :
        /\ k <= Len(t)
        /\ \A i \in 1..k : s[i] = t[i]
        /\ \/ k = Len(s) /\ k < Len(t)
           \/ k < Len(s) /\ k < Len(t) /\ Ord[s[k + 1]] < Ord[t[k + 1]]

Ascending(l) == \A i \in 1..(Len(l) - 1) : ~Precedes(l[i + 1], l[i])

\* ------------------------------------------------------------------------
\* C8
\* ------------------------------------------------------------------------

\* C8: on a file of five-field lines all_data returns one record per line
\* in file order, the i-th record being (first field, a space, second
\* field), then the third, fourth and fifth fields of the i-th line.
C8_LoaderRecords ==
    LET F == FieldsOf(file) IN
    (op = "all_data" /\ WellFormed(F)) =>
        /\ ret.tag = "return"
        /\ Len(ret.val) = Len(F)
        /\ \A i \in 1..Len(F) :
             ret.val[i] = <<NameAt(F, i), HouseAt(F, i),
                            AdviserAt(F, i), CohortAt(F, i)>>

\* Two different five-field lines were loaded, one of them ending in
\* blanks before its terminator.
C8_Witness ==
    LET F == FieldsOf(file) IN
    /\ op = "all_data"
    /\ WellFormed(F)
    /\ Len(F) = 2
    /\ NameAt(F, 1) # NameAt(F, 2)
    /\ StrippedLen(file[2]) < Len(file[2]) - 1
    /\ ret.tag = "return"

\* ------------------------------------------------------------------------
\* C7
\* ------------------------------------------------------------------------

\* C7: whenever all_houses returns, every element of the set is the house
\* (third field) of some line, every non-empty house of the file is in
\* the set, and the empty string is not; it returns on every file of
\* five-field lines.
C7_HousesOfFile ==
    LET F == FieldsOf(file) IN
    (op = "all_houses") =>
        /\ WellFormed(F) => ret.tag = "return"
        /\ ret.tag = "return" =>
             /\ \A i \in 1..Len(F) : Len(F[i]) >= 3
             /\ \A h \in ret.val : \E i \in 1..Len(F) : HouseAt(F, i) = h
             /\ \A i \in 1..Len(F) :
                  HouseAt(F, i) # <<>> => HouseAt(F, i) \in ret.val
             /\ <<>> \notin ret.val

\* all_houses returned one house for a file of a housed student and a
\* ghost.
C7_Witness ==
    LET F == FieldsOf(file) IN
    /\ op = "all_houses"
    /\ WellFormed(F)
    /\ Len(F) = 2
    /\ HouseAt(F, 1) = <<>>
    /\ HouseAt(F, 2) # <<>>
    /\ ret = Return({HouseAt(F, 2)})

\* ------------------------------------------------------------------------
\* C6
\* ------------------------------------------------------------------------

\* C6: on a file of five-field lines get_cohort_for and get_house_for
\* return the cohort and the house of the first line in file order whose
\* full name is the name asked for, and None when no line has that name.
\* The answer is a function of the file and the name alone, and no call
\* changes the file, so a repeated call gives it again.
C6_FirstMatch ==
    LET F == FieldsOf(file) IN
    (op \in {"get_cohort_for", "get_house_for"} /\ WellFormed(F)) =>
        IF LinesNaming(F, arg) = {}
        THEN ret = Return(PyNone)
        ELSE ret = Return(PyStr(IF op = "get_cohort_for"
                                THEN CohortAt(F, FirstNaming(F, arg))
                                ELSE HouseAt(F, FirstNaming(F, arg))))

\* get_cohort_for answered for a name that two lines state with different
\* cohorts.
C6_Witness ==
    LET F == FieldsOf(file) IN
    /\ op = "get_cohort_for"
    /\ WellFormed(F)
    /\ Len(F) = 2
    /\ LinesNaming(F, arg) = {1, 2}
    /\ CohortAt(F, 1) # CohortAt(F, 2)
    /\ ret = Return(PyStr(CohortAt(F, 1)))

\* ------------------------------------------------------------------------
\* C4
\* ------------------------------------------------------------------------

\* The lines of students (neither ghost nor instructor) that the filter
\* selects: all of them for "All", else those of that cohort.
StudentLines(f, cohort) ==
    {i \in 1..Len(f) :
        /\ CohortAt(f, i) \notin {StrG, StrI}
        /\ cohort = StrAll \/ CohortAt(f, i) = cohort}

\* C4: on a file of five-field lines students_by_cohort returns a list in
\* ascending order that holds each full name as many times as student
\* lines selected by the filter state it; with the filter "All" (the
\* default) its length is the number of lines less the ghosts and the
\* instructors.
C4_StudentsSorted ==
    LET F == FieldsOf(file) IN
    (op = "students_by_cohort" /\ WellFormed(F)) =>
        /\ ret.tag = "return"
        /\ Ascending(ret.val)
        /\ Len(ret.val) = Cardinality(StudentLines(F, arg))
        /\ \A i \in 1..Len(F) :
             Count(ret.val, NameAt(F, i)) =
                Cardinality({j \in StudentLines(F, arg) :
                                NameAt(F, j) = NameAt(F, i)})
        /\ arg = StrAll =>
             Len(ret.val) = Len(F)
                - Cardinality({i \in 1..Len(F) : CohortAt(F, i) = StrG})
                - Cardinality({i \in 1..Len(F) : CohortAt(F, i) = StrI})

\* The unfiltered list of a file of three student lines, the first and
\* the third of one name and the second of a name that precedes it: the
\* name is listed twice.
C4_Witness ==
    LET F == FieldsOf(file) IN
    /\ op = "students_by_cohort"
    /\ arg = StrAll
    /\ WellFormed(F)
    /\ Len(F) = 3
    /\ NameAt(F, 1) = NameAt(F, 3)
    /\ Precedes(NameAt(F, 2), NameAt(F, 1))
    /\ Len(ret.val) >= 2
    /\ Count(ret.val, NameAt(F, 1)) = 2

\* ------------------------------------------------------------------------
\* C3
\* ------------------------------------------------------------------------

\* The roster a line belongs to, 0 for none: that of its house when it
\* has one of the five, Ghosts or Instructors when it has no house and
\* the cohort G or I.
RosterOf(f, i) ==
    IF HouseAt(f, i) = DumbledoresArmy THEN 1
    ELSE IF HouseAt(f, i) = Gryffindor THEN 2
    ELSE IF HouseAt(f, i) = Hufflepuff THEN 3
    ELSE IF HouseAt(f, i) = Ravenclaw THEN 4
    ELSE IF HouseAt(f, i) = Slytherin THEN 5
    ELSE IF HouseAt(f, i) = <<>> /\ CohortAt(f, i) = StrG THEN 6
    ELSE IF HouseAt(f, i) = <<>> /\ CohortAt(f, i) = StrI THEN 7
    ELSE 0

\* C3: on a file of five-field lines all_names_by_house returns seven
\* lists, each in ascending order, in the order Dumbledore's Army,
\* Gryffindor, Hufflepuff, Ravenclaw, Slytherin, Ghosts, Instructors; the
\* k-th list holds each full name as many times as lines of roster k
\* state it, so every line is in the one list of its roster or in none,
\* and the lists and the dropped lines together count every line once.
C3_SevenRosters ==
    LET F == FieldsOf(file) IN
    (op = "all_names_by_house" /\ WellFormed(F)) =>
        /\ ret.tag = "return"
        /\ DOMAIN ret.val = 1..7
        /\ \A k \in 1..7 :
             /\ Ascending(ret.val[k])
             /\ Len(ret.val[k]) =
                  Cardinality({i \in 1..Len(F) : RosterOf(F, i) = k})
             /\ \A i \in 1..Len(F) :
                  Count(ret.val[k], NameAt(F, i)) =
                     Cardinality({j \in 1..Len(F) :
                        RosterOf(F, j) = k /\ NameAt(F, j) = NameAt(F, i)})

\* The rosters of a file that holds a ghost and a line with a house and
\* the cohort G: the Ghosts list has one name, the house list the other.
C3_Witness ==
    LET F == FieldsOf(file) IN
    /\ op = "all_names_by_house"
    /\ WellFormed(F)
    /\ Len(F) = 2
    /\ HouseAt(F, 1) = Gryffindor /\ CohortAt(F, 1) = StrG
    /\ HouseAt(F, 2) = <<>> /\ CohortAt(F, 2) = StrG
    /\ ret.tag = "return"
    /\ ret.val[2] = <<NameAt(F, 1)>>
    /\ ret.val[6] = <<NameAt(F, 2)>>

\* ------------------------------------------------------------------------
\* C5, C1, C10
\* ------------------------------------------------------------------------

\* The names other than `name` that some line states with the house and
\* the cohort of the first line naming `name`.
Housemates(f, name) ==
    LET t == FirstNaming(f, name)
    IN  {NameAt(f, i) : i \in {j \in 1..Len(f) :
            /\ NameAt(f, j) # name
            /\ HouseAt(f, j) = HouseAt(f, t)
            /\ CohortAt(f, j) = CohortAt(f, t)}}

HasHousedStudent(f, name) ==
    \E i \in LinesNaming(f, name) :
        HouseAt(f, i) # <<>> /\ CohortAt(f, i) \notin {StrG, StrI}

\* C5: on a file of five-field lines, for a name that a line states with
\* a house and a student cohort, get_housemates_for returns exactly the
\* full names other than the name that a line states with the house and
\* the cohort of the target (the first line of that name); the name asked
\* for is not in the result.
C5_HousematesExact ==
    LET F == FieldsOf(file) IN
    (op = "get_housemates_for" /\ WellFormed(F)
        /\ HasHousedStudent(F, arg)) =>
        /\ ret = Return(Housemates(F, arg))
        /\ arg \notin ret.val

\* A student with two housemates, in a file of three lines.
C5_Witness ==
    LET F == FieldsOf(file) IN
    /\ op = "get_housemates_for"
    /\ WellFormed(F)
    /\ HasHousedStudent(F, arg)
    /\ Len(F) = 3
    /\ ret.tag = "return"
    /\ Cardinality(ret.val) = 2

\* The target has no house or cohort: no line states the name, or the
\* first that does is a ghost or an instructor.
NoHouseOrCohort(f, name) ==
    \/ LinesNaming(f, name) = {}
    \/ /\ HouseAt(f, FirstNaming(f, name)) = <<>>
       /\ CohortAt(f, FirstNaming(f, name)) \in {StrG, StrI}

\* C1: on a file of five-field lines get_housemates_for returns the empty
\* set when the target has no house or cohort: the name is not found, or
\* is that of a ghost or of an instructor.
C1_EmptyForGhost ==
    LET F == FieldsOf(file) IN
    (op = "get_housemates_for" /\ WellFormed(F)
        /\ NoHouseOrCohort(F, arg)) =>
        ret = Return({})

\* The names a file states, and those a call may ask for.
NamesOf(f) == {NameAt(f, i) : i \in 1..Len(f)} \cup NameArgs

\* All lines that state the same full name state the same house and the
\* same cohort.
NamesConsistent(f) ==
    \A i, j \in 1..Len(f) :
        NameAt(f, i) = NameAt(f, j) =>
            HouseAt(f, i) = HouseAt(f, j) /\ CohortAt(f, i) = CohortAt(f, j)

\* b is in the housemates get_housemates_for returns for a.
HousemateOf(lines, b, a) ==
    LET r == get_housemates_for(lines, a)
    IN  r.tag = "return" /\ b \in r.val

\* C10 as stated: on every file of five-field lines, a is among the
\* housemates returned for b exactly if b is among those returned for a.
C10_SymmetricAlways ==
    LET F == FieldsOf(file) IN
    (op = "get_housemates_for" /\ WellFormed(F)) =>
        /\ ret.tag = "return"
        /\ \A a \in NamesOf(F) : a \in ret.val <=> HousemateOf(file, arg, a)

\* C10 as amended: the same, on the files of five-field lines in which
\* all lines of one full name state the same house and cohort.
C10_SymmetricConsistent ==
    LET F == FieldsOf(file) IN
    (op = "get_housemates_for" /\ WellFormed(F) /\ NamesConsistent(F)) =>
        /\ ret.tag = "return"
        /\ \A a \in NamesOf(F) : a \in ret.val <=> HousemateOf(file, arg, a)

\* A name stated twice with one house and cohort has a housemate.
C10_Witness ==
    LET F == FieldsOf(file) IN
    /\ op = "get_housemates_for"
    /\ WellFormed(F)
    /\ NamesConsistent(F)
    /\ Len(F) = 3
    /\ Cardinality(LinesNaming(F, arg)) = 2
    /\ ret.tag = "return"
    /\ ret.val # {}

\* ------------------------------------------------------------------------
\* C2
\* ------------------------------------------------------------------------

\* The last names (second fields) that two or more lines state.
DupedLastNames(f) ==
    {f[i][2] : i \in {j \in 1..Len(f) :
        \E k \in 1..Len(f) : k # j /\ f[k][2] = f[j][2]}}

\* C2: on a file of five-field lines find_duped_last_names returns
\* exactly the set of last names stated by two or more lines (the empty
\* set when none repeats).
C2_DupedExact ==
    LET F == FieldsOf(file) IN
    (op = "find_duped_last_names" /\ WellFormed(F)) =>
        ret = Return(DupedLastNames(F))

\* ------------------------------------------------------------------------
\* C9
\* ------------------------------------------------------------------------

Queries ==
    {"all_houses", "students_by_cohort", "all_names_by_house",
     "get_cohort_for", "get_house_for", "get_housemates_for"}

\* C9 as stated: when some line has not five fields, every query raises.
C9_AnyMalformedAborts ==
    LET F == FieldsOf(file) IN
    (op \in Queries /\ ~WellFormed(F)) => ret.tag = "raise"

\* C9 as amended: when some line has fewer than two fields, every query
\* raises; when some line has not five fields, students_by_cohort,
\* all_names_by_house and get_housemates_for raise, wherever the line
\* stands.
C9_StrictQueriesAbort ==
    LET F == FieldsOf(file) IN
    /\ (op \in Queries /\ \E i \in 1..Len(F) : Len(F[i]) < 2) =>
            ret.tag = "raise"
    /\ (op \in {"students_by_cohort", "all_names_by_house", "get_housemates_for"}
            /\ ~WellFormed(F)) =>
            ret.tag = "raise"

\* all_names_by_house raised on a file whose first line has five fields
\* and whose second has four.
C9_Witness ==
    LET F == FieldsOf(file) IN
    /\ op = "all_names_by_house"
    /\ Len(F) = 2
    /\ Len(F[1]) = 5
    /\ Len(F[2]) = 4
    /\ ret.tag = "raise"

=============================================================================
